---------------------------- MODULE Spec2Model ----------------------------
(***************************************************************************)
(* A model of the BNO055 driver (src/bno055.py).                           *)
(*                                                                         *)
(* The device is a register file behind a two-wire bus.  Each driver       *)
(* method is a sequence of statements (its body, in source order); a       *)
(* caller executes the statements of its current call one at a time.  A    *)
(* register access is split into the steps the source performs: filling    *)
(* the shared 2-byte scratch buffer, the bus transaction under the bus     *)
(* lock, and (for a read) fetching the returned byte out of the buffer.    *)
(* Every bus transaction may fail with OSError, up to MaxFailures times.   *)
(*                                                                         *)
(* Spec: one caller, from before construction, with bus errors.            *)
(* SpecReadings: the queries of one caller on a device held at given       *)
(* register contents.  SpecConcurrent: two callers sharing the handle.     *)
(***************************************************************************)
EXTENDS Integers, Sequences, FiniteSets

(***************************************************************************)
(* Program constants (src/bno055.py:45-70).                                *)
(***************************************************************************)
_CHIP_ID == 160

CONFIG_MODE == 0
ACCONLY_MODE == 1
MAGONLY_MODE == 2
GYRONLY_MODE == 3
ACCMAG_MODE == 4
ACCGYRO_MODE == 5
MAGGYRO_MODE == 6
AMG_MODE == 7
IMUPLUS_MODE == 8
COMPASS_MODE == 9
M4G_MODE == 10
NDOF_FMC_OFF_MODE == 11
NDOF_MODE == 12

_POWER_NORMAL == 0
_POWER_LOW == 1
_POWER_SUSPEND == 2

_MODE_REGISTER == 61
_PAGE_REGISTER == 7
_CALIBRATION_REGISTER == 53
_TRIGGER_REGISTER == 63
_POWER_REGISTER == 62
_ID_REGISTER == 0

\* The calibration profile block: 22 bytes at 0x55.
CAL_BLOCK_ADDRESS == 85
CAL_BLOCK_LENGTH == 22

\* Bits of the trigger register written by the driver.
RESET_BIT == 32
CRYSTAL_BIT == 128

(***************************************************************************)
(* Bounds of the model.                                                    *)
(***************************************************************************)
\* How many bus transactions of one run may fail.
MaxFailures == 1

Byte == 0 .. 255

Modes ==
    { CONFIG_MODE, ACCONLY_MODE, MAGONLY_MODE, GYRONLY_MODE, ACCMAG_MODE,
      ACCGYRO_MODE, MAGGYRO_MODE, AMG_MODE, IMUPLUS_MODE, COMPASS_MODE,
      M4G_MODE, NDOF_FMC_OFF_MODE, NDOF_MODE }

\* The single-byte registers the driver addresses.
Registers ==
    { _ID_REGISTER, _PAGE_REGISTER, _CALIBRATION_REGISTER, _MODE_REGISTER,
      _POWER_REGISTER, _TRIGGER_REGISTER }

\* The callers that may hold the handle; the sequential model runs caller 1.
Callers == {1, 2}
SingleCaller == {1}

\* A calibration profile of n bytes: byte i holds (seed + i) mod 256.
Profile(seed, n) == [i \in 1 .. n |-> (seed + i) % 256]

\* The arguments callers pass to set_calibration: 21, 22 and 23 bytes.
DataArgs ==
    { Profile(7, CAL_BLOCK_LENGTH - 1), Profile(7, CAL_BLOCK_LENGTH),
      Profile(7, CAL_BLOCK_LENGTH + 1) }

VARIABLES
    dev,        \* the device's registers: register address -> byte
    calib,      \* the device's 22-byte calibration block at 0x55
    buffer,     \* self.buffer, the 2-byte scratch buffer <<buffer[0], buffer[1]>>
    handle,     \* "none" | "constructing" | "ready" | "failed"
    op,         \* per caller: the call in progress or last made, with the
                \* operating mode the device was in when it was made
    code,       \* per caller: the statements left to execute in its call
    phase,      \* per caller: position inside a register access
    locals,     \* per caller: the local variables of its call
    outcome,    \* per caller: how its last call ended, and what it returned
    trace,      \* per caller: the bus transactions and waits of its call
    failures,   \* bus errors injected so far
    lastSet,    \* the mode of the last completed mode assignment (-1: none)
    lock        \* the callers' own serialization of their calls: -1 when they
                \* use none, 0 when the lock is free, else the caller holding it

vars ==
    << dev, calib, buffer, handle, op, code, phase, locals, outcome, trace,
       failures, lastSet, lock >>

(***************************************************************************)
(* Statements.  Every statement is a record of the same shape.             *)
(***************************************************************************)
Stmt(k, reg, val, aux, exc) ==
    [k |-> k, reg |-> reg, val |-> val, aux |-> aux, exc |-> exc]

\* Mutant of I_write: every register write sits in a try block that drops
\* OSError, as the reset write does.
I_write_tolerant(register, value) == Stmt("write", register, value, "pass", "")

\* self._write_register(register, value)
I_write(register, value) == Stmt("write", register, value, "raise", "")
\* try: self._write_register(register, value) / except OSError: pass
I_try_write(register, value) == Stmt("write", register, value, "pass", "")
\* dst = self._read_register(register)
I_read(register, dst) == Stmt("read", register, 0, dst, "")
\* time.sleep(ms / 1000)
I_sleep(ms) == Stmt("sleep", 0, ms, "", "")
\* self.mode = value
I_set_mode(value) == Stmt("mode=", 0, value, "lit", "")
\* self.mode = <local>
I_set_mode_from(name) == Stmt("mode=", 0, 0, name, "")
\* if <test>: raise <exc>
I_raise_if(test, exc) == Stmt("raise_if", 0, 0, test, exc)
\* return <what>
I_return(what) == Stmt("return", 0, 0, what, "")

\* The scales are fractions 1/100, 1/16 and 1/(1<<14): a scaled value is
\* kept exactly, as an integer count of ScaleUnit-ths.
ScaleUnit == 100 * (16 * 256)
Scale(denominator) == ScaleUnit \div denominator

\* _ScaledReadOnlyStruct(register_address, struct_format, scale)
\* (src/bno055.py:74-77), read through __get__
_ScaledReadOnlyStruct(register_address, struct_format, scale) ==
    << Stmt("struct_get", register_address, scale, struct_format, "") >>

\* The scaled bindings of class BNO055 (src/bno055.py:99-121).
accelerometer == _ScaledReadOnlyStruct(8, "<hhh", Scale(100))
acceleration == _ScaledReadOnlyStruct(8, "<hhh", Scale(100))
magnetometer == _ScaledReadOnlyStruct(14, "<hhh", Scale(16))
magnetic == _ScaledReadOnlyStruct(14, "<hhh", Scale(16))
gyroscope == _ScaledReadOnlyStruct(20, "<hhh", Scale(16))
euler == _ScaledReadOnlyStruct(26, "<hhh", Scale(16))
quaternion == _ScaledReadOnlyStruct(32, "<hhhh", Scale(16384))
linear_acceleration == _ScaledReadOnlyStruct(40, "<hhh", Scale(100))
gravity == _ScaledReadOnlyStruct(46, "<hhh", Scale(100))

ScaledBindings ==
    { << "accelerometer", accelerometer >>,
      << "acceleration", acceleration >>,
      << "magnetometer", magnetometer >>,
      << "magnetic", magnetic >>,
      << "gyroscope", gyroscope >>,
      << "euler", euler >>,
      << "quaternion", quaternion >>,
      << "linear_acceleration", linear_acceleration >>,
      << "gravity", gravity >> }

\* The number of 'h' fields of a struct format.
FieldCount(struct_format) ==
    CASE struct_format = "<hhh" -> 3
      [] struct_format = "<hhhh" -> 4

\* Mutant of Unpack_h: the two bytes are read as an unsigned number.
Unpack_H(low, high) == low + 256 * high

\* struct.unpack of one '<h' field: little-endian, two's complement.
Unpack_h(low, high) ==
    IF high >= 128 THEN low + 256 * high - 65536 ELSE low + 256 * high

(***************************************************************************)
(* The method bodies, as statement sequences in source order.              *)
(***************************************************************************)
\* Mutant of mode_setter: the target mode is written without the pass
\* through CONFIG.
mode_setter_direct(new_mode) ==
    IF new_mode # CONFIG_MODE
    THEN << I_write(_MODE_REGISTER, new_mode), I_sleep(10) >>
    ELSE << I_write(_MODE_REGISTER, CONFIG_MODE), I_sleep(20) >>

\* Mutant of mode_setter: the write of CONFIG tolerates a bus error, so the
\* target mode is written even when the device never reached CONFIG.
mode_setter_tolerant(new_mode) ==
    << I_try_write(_MODE_REGISTER, CONFIG_MODE), I_sleep(20) >>
    \o (IF new_mode # CONFIG_MODE
        THEN << I_write(_MODE_REGISTER, new_mode), I_sleep(10) >>
        ELSE << >>)

\* BNO055.mode setter (src/bno055.py:211-217)
mode_setter(new_mode) ==
    << I_write(_MODE_REGISTER, CONFIG_MODE), I_sleep(20) >>
    \o (IF new_mode # CONFIG_MODE
        THEN << I_write(_MODE_REGISTER, new_mode), I_sleep(10) >>
        ELSE << >>)

\* BNO055.mode getter (src/bno055.py:169-209)
mode_getter == << I_read(_MODE_REGISTER, "ret"), I_return("ret") >>

\* Mutant of _reset: the device is put in NDOF, not CONFIG, before the reset.
reset_in_ndof ==
    << I_set_mode(NDOF_MODE),
       I_try_write(_TRIGGER_REGISTER, RESET_BIT),
       I_sleep(700) >>

\* BNO055._reset (src/bno055.py:159-167)
_reset ==
    << I_set_mode(CONFIG_MODE),
       I_try_write(_TRIGGER_REGISTER, RESET_BIT),
       I_sleep(700) >>

\* Mutant of __init__: the power, page and trigger writes precede the reset.
init_reset_late ==
    << I_read(_ID_REGISTER, "chip_id"),
       I_raise_if("chip_id != _CHIP_ID", "RuntimeError"),
       I_write(_POWER_REGISTER, _POWER_NORMAL),
       I_write(_PAGE_REGISTER, 0),
       I_write(_TRIGGER_REGISTER, 0) >>
    \o _reset
    \o << I_sleep(10),
          I_set_mode(NDOF_MODE),
          I_sleep(10),
          I_return("None") >>

\* Mutant of __init__: the identity is checked only after the reset.
init_check_late ==
    << I_read(_ID_REGISTER, "chip_id") >>
    \o _reset
    \o << I_raise_if("chip_id != _CHIP_ID", "RuntimeError"),
          I_write(_POWER_REGISTER, _POWER_NORMAL),
          I_write(_PAGE_REGISTER, 0),
          I_write(_TRIGGER_REGISTER, 0),
          I_sleep(10),
          I_set_mode(NDOF_MODE),
          I_sleep(10),
          I_return("None") >>

\* BNO055.__init__ (src/bno055.py:124-136)
__init__ ==
    << I_read(_ID_REGISTER, "chip_id"),
       I_raise_if("chip_id != _CHIP_ID", "RuntimeError") >>
    \o _reset
    \o << I_write(_POWER_REGISTER, _POWER_NORMAL),
          I_write(_PAGE_REGISTER, 0),
          I_write(_TRIGGER_REGISTER, 0),
          I_sleep(10),
          I_set_mode(NDOF_MODE),
          I_sleep(10),
          I_return("None") >>

\* BNO055.calibration_status (src/bno055.py:257-265)
calibration_status ==
    << I_read(_CALIBRATION_REGISTER, "calibration_data"),
       I_return("calibration_status") >>

\* BNO055.calibrated (src/bno055.py:267-271)
calibrated ==
    << I_read(_CALIBRATION_REGISTER, "calibration_data"),
       I_return("calibrated") >>

\* BNO055.get_calibration (src/bno055.py:219-227).  `self.mode(CONFIG_MODE)`
\* evaluates the property self.mode (a register read returning an int) and
\* then calls that int, which raises TypeError; the statements after it are
\* never reached.
get_calibration ==
    << I_read(_CALIBRATION_REGISTER, "calibration_data"),
       I_raise_if("not calibrated", "ValueError"),
       I_read(_MODE_REGISTER, "ret"),
       I_raise_if("int is not callable", "TypeError") >>

\* The body of BNO055.set_calibration (src/bno055.py:230-236), entered with a
\* data argument.  As in get_calibration, `self.mode(CONFIG_MODE)` reads the
\* mode register and raises TypeError.
set_calibration ==
    << I_raise_if("data is None or len(data) != 22", "ValueError"),
       I_read(_MODE_REGISTER, "ret"),
       I_raise_if("int is not callable", "TypeError") >>

\* The body of BNO055.load_calibration (src/bno055.py:239-248), entered with
\* an fpath argument, the stored profile holding one item per line.  The
\* first f.read() consumes the file; the loop then splits the empty rest and
\* evaluates `byte(item, 'utf-8')` and `data[idx]`, names that are bound
\* nowhere: NameError.  `return data` is never reached.
load_calibration ==
    << I_raise_if("len(f.read().split('\\n')) != 22", "ValueError"),
       I_raise_if("byte is not defined", "NameError"),
       I_return("data") >>

\* The attribute access sensor.load_calibration (src/bno055.py:238-239): the
\* function is wrapped as a property, so the access calls it without `fpath`
\* and raises TypeError before its body is entered.
load_calibration_property ==
    << I_raise_if("missing argument fpath", "TypeError") >>

\* Mutant of external_crystal: the prior mode is not restored.
external_crystal_no_restore ==
    << I_read(_MODE_REGISTER, "last_mode"),
       I_set_mode(CONFIG_MODE),
       I_write(_PAGE_REGISTER, 0),
       I_read(_TRIGGER_REGISTER, "value"),
       I_return("value == 0x80") >>

\* The attribute access sensor.set_calibration (src/bno055.py:229-230): the
\* function is wrapped as a property, so the access calls it without `data`
\* and raises TypeError before its body is entered.
set_calibration_property ==
    << I_raise_if("missing argument data", "TypeError") >>

\* A caller's round trip: set_calibration(sensor, data) followed by
\* sensor.get_calibration, whose value it returns.  An exception out of the
\* first call ends the round trip.
calibration_round_trip == set_calibration \o get_calibration

\* BNO055.external_crystal (src/bno055.py:273-281)
external_crystal ==
    << I_read(_MODE_REGISTER, "last_mode"),
       I_set_mode(CONFIG_MODE),
       I_write(_PAGE_REGISTER, 0),
       I_read(_TRIGGER_REGISTER, "value"),
       I_set_mode_from("last_mode"),
       I_return("value == 0x80") >>

\* Mutant of use_external_crystal: the crystal bit is written whatever the
\* value assigned.
use_external_crystal_always_on(value) ==
    << I_read(_MODE_REGISTER, "last_mode"),
       I_set_mode(CONFIG_MODE),
       I_write(_PAGE_REGISTER, 0),
       I_write(_TRIGGER_REGISTER, CRYSTAL_BIT),
       I_set_mode_from("last_mode"),
       I_sleep(10),
       I_return("None") >>

\* BNO055.use_external_crystal setter (src/bno055.py:283-290)
use_external_crystal(value) ==
    << I_read(_MODE_REGISTER, "last_mode"),
       I_set_mode(CONFIG_MODE),
       I_write(_PAGE_REGISTER, 0),
       I_write(_TRIGGER_REGISTER, IF value THEN CRYSTAL_BIT ELSE 0),
       I_set_mode_from("last_mode"),
       I_sleep(10),
       I_return("None") >>


\* A caller's round trip: sensor.use_external_crystal = value followed by
\* sensor.external_crystal, whose value it returns.
crystal_round_trip(value) ==
    LET set == use_external_crystal(value)
    IN  SubSeq(set, 1, Len(set) - 1) \o external_crystal

(***************************************************************************)
(* Values computed by the driver.                                          *)
(***************************************************************************)
\* Mutant of StatusTuple: the gyro field is taken one bit too high.
StatusTuple_gyro_shift(calibration_data) ==
    << (calibration_data \div 64) % 4,
       (calibration_data \div 32) % 4,
       (calibration_data \div 4) % 4,
       calibration_data % 4 >>

\* Mutant of StatusTuple: the accel field is taken one bit too high.
StatusTuple_accel_shift(calibration_data) ==
    << (calibration_data \div 64) % 4,
       (calibration_data \div 16) % 4,
       (calibration_data \div 8) % 4,
       calibration_data % 4 >>

\* calibration_status: the four 2-bit fields of the status byte
\* (src/bno055.py:261-265).
StatusTuple(calibration_data) ==
    << (calibration_data \div 64) % 4,
       (calibration_data \div 16) % 4,
       (calibration_data \div 4) % 4,
       calibration_data % 4 >>

\* Mutant of IsCalibrated: only the system field is compared with 3.
IsCalibrated_sys_only(calibration_data) ==
    StatusTuple(calibration_data)[1] = 3

\* calibrated: sys == gyro == accel == mag == 0x03 (src/bno055.py:270-271).
IsCalibrated(calibration_data) ==
    LET t == StatusTuple(calibration_data)
    IN  t[1] = t[2] /\ t[2] = t[3] /\ t[3] = t[4] /\ t[4] = 3

\* The conditions of the `raise` statements, on a call's locals and arguments.
Test(test, l, o) ==
    CASE test = "chip_id != _CHIP_ID" -> l.chip_id # _CHIP_ID
      [] test = "not calibrated" -> ~ IsCalibrated(l.calibration_data)
      [] test = "data is None or len(data) != 22" ->
            o.arg = 0 \/ Len(o.data) # CAL_BLOCK_LENGTH
      [] test = "int is not callable" -> TRUE
      [] test = "missing argument data" -> TRUE
      [] test = "len(f.read().split('\\n')) != 22" ->
            Len(o.data) # CAL_BLOCK_LENGTH
      [] test = "byte is not defined" -> TRUE
      [] test = "missing argument fpath" -> TRUE

\* The value a `return` statement returns, as a sequence of integers
\* (None: the empty sequence; a boolean: <<0>> or <<1>>).
RetVal(what, l) ==
    CASE what = "None" -> << >>
      [] what = "ret" -> << l.ret >>
      [] what = "calibration_status" -> StatusTuple(l.calibration_data)
      [] what = "calibrated" ->
            << IF IsCalibrated(l.calibration_data) THEN 1 ELSE 0 >>
      [] what = "value == 0x80" -> << IF l.value = 128 THEN 1 ELSE 0 >>
      [] what = "data" -> [i \in 1 .. CAL_BLOCK_LENGTH |-> 0]

(***************************************************************************)
(* The device behind the bus.                                              *)
(***************************************************************************)
\* The registers that hold what was last written to them.  The calibration
\* status register is updated by the chip on its own: a read of it may
\* return any status byte.
StoredRegisters == Registers \ {_CALIBRATION_REGISTER}

\* The registers after a reboot of the chip ("Resets the sensor to default
\* settings"): CONFIG mode, normal power, page 0, trigger cleared.
PowerOnDefaults(d) ==
    [d EXCEPT ![_MODE_REGISTER] = CONFIG_MODE,
              ![_POWER_REGISTER] = _POWER_NORMAL,
              ![_PAGE_REGISTER] = 0,
              ![_TRIGGER_REGISTER] = 0]

\* The status bytes the model lets the chip report: every byte whose four
\* fields are each 0 or 3 (0x00 and 0xFF among them), the bytes one field
\* short of full calibration, bytes with four equal fields below 3, and 0xE4.
StatusBytes ==
    { b \in Byte : \A i \in 1 .. 4 : StatusTuple(b)[i] \in {0, 3} }
    \cup { 254, 253, 251, 247, 239, 223, 191, 127, 85, 170, 228 }

\* The bytes a read of a register may return: the byte the device holds
\* there, and for the status register of a device that is not held at one
\* status, any of the status bytes.
DevRead(d, register) ==
    IF register = _CALIBRATION_REGISTER /\ register \notin DOMAIN d
    THEN StatusBytes
    ELSE {d[register]}

\* The registers after a write of [register, value] has reached the device.
DevWrite(d, register, value) ==
    IF register = _TRIGGER_REGISTER /\ (value \div RESET_BIT) % 2 = 1
    THEN PowerOnDefaults(d)
    ELSE IF register \in {_ID_REGISTER, _CALIBRATION_REGISTER}
         THEN d
         ELSE [d EXCEPT ![register] = value]

\* The sensor data registers behind the scaled bindings: 0x08 .. 0x33.
DataRegisters == 8 .. 51

\* The 16-bit words the model puts in the data registers.
RawWords == {0, 1, 100, 200, 32767, 32768, 49152, 65436}

\* A device that has been constructed on (identity 0xA0, NDOF, page 0) and
\* is held with byte t in the trigger register, status byte b in the
\* calibration status register and, in the data registers, the words of w
\* in turn, low byte first.
DeviceHolding(t, b, w) ==
    [r \in Registers \cup DataRegisters |->
        CASE r = _ID_REGISTER -> _CHIP_ID
          [] r = _MODE_REGISTER -> NDOF_MODE
          [] r = _POWER_REGISTER -> _POWER_NORMAL
          [] r = _PAGE_REGISTER -> 0
          [] r = _TRIGGER_REGISTER -> t
          [] r = _CALIBRATION_REGISTER -> b
          [] OTHER ->
                LET word == w[(((r - 8) \div 2) % Len(w)) + 1]
                IN  IF (r - 8) % 2 = 0 THEN word % 256 ELSE word \div 256]

(***************************************************************************)
(* Initial state: no handle yet; the device as a previous session left it. *)
(***************************************************************************)
NoOp == [name |-> "", arg |-> 0, data |-> << >>, prior |-> -1]
NoLocals ==
    [chip_id |-> -1, last_mode |-> -1, value |-> -1, calibration_data |-> -1,
     ret |-> -1]
NoOutcome == [status |-> "none", val |-> << >>]

Init ==
    /\ \E id \in Byte, m \in Modes, t \in {0, CRYSTAL_BIT} :
            dev = [r \in StoredRegisters |->
                     CASE r = _ID_REGISTER -> id
                       [] r = _MODE_REGISTER -> m
                       [] r = _TRIGGER_REGISTER -> t
                       [] r = _POWER_REGISTER -> _POWER_NORMAL
                       [] r = _PAGE_REGISTER -> 0]
    /\ calib = Profile(0, CAL_BLOCK_LENGTH)
    /\ buffer = << 0, 0 >>
    /\ handle = "none"
    /\ op = [c \in Callers |-> NoOp]
    /\ code = [c \in Callers |-> << >>]
    /\ phase = [c \in Callers |-> "start"]
    /\ locals = [c \in Callers |-> NoLocals]
    /\ outcome = [c \in Callers |-> NoOutcome]
    /\ trace = [c \in Callers |-> << >>]
    /\ failures = 0
    /\ lastSet = -1
    /\ lock = -1

(***************************************************************************)
(* Calls.  A caller that is not inside a call may make one; the handle     *)
(* exists once __init__ has returned.                                      *)
(***************************************************************************)
Idle(c) == code[c] = << >>

Start(c, name, arg, data, body) ==
    /\ Idle(c)
    /\ op' = [op EXCEPT ![c] =
            [name |-> name, arg |-> arg, data |-> data,
             prior |-> dev[_MODE_REGISTER]]]
    /\ code' = [code EXCEPT ![c] = body]
    /\ phase' = [phase EXCEPT ![c] = "start"]
    /\ locals' = [locals EXCEPT ![c] = NoLocals]
    /\ outcome' = [outcome EXCEPT ![c] = [status |-> "running", val |-> << >>]]
    /\ trace' = [trace EXCEPT ![c] = << >>]
    /\ UNCHANGED << dev, calib, buffer, failures, lastSet, lock >>

\* sensor = BNO055(i2c)
Construct(c) ==
    /\ handle = "none"
    /\ handle' = "constructing"
    /\ Start(c, "__init__", 0, << >>, __init__)

\* sensor.mode
CallModeGet(c) ==
    /\ handle = "ready"
    /\ UNCHANGED handle
    /\ Start(c, "mode", 0, << >>, mode_getter)

\* sensor.mode = new_mode
CallModeSet(c) ==
    \E new_mode \in Modes :
        /\ handle = "ready"
        /\ UNCHANGED handle
        /\ Start(c, "mode.setter", new_mode, << >>,
                 << I_set_mode(new_mode), I_return("None") >>)

\* sensor.calibration_status
CallCalibrationStatus(c) ==
    /\ handle = "ready"
    /\ UNCHANGED handle
    /\ Start(c, "calibration_status", 0, << >>, calibration_status)

\* sensor.calibrated
CallCalibrated(c) ==
    /\ handle = "ready"
    /\ UNCHANGED handle
    /\ Start(c, "calibrated", 0, << >>, calibrated)

\* sensor.get_calibration
CallGetCalibration(c) ==
    /\ handle = "ready"
    /\ UNCHANGED handle
    /\ Start(c, "get_calibration", 0, << >>, get_calibration)

\* set_calibration(sensor, data), data a list or (arg = 0) None
CallSetCalibration(c) ==
    \/ \E data \in DataArgs :
        /\ handle = "ready"
        /\ UNCHANGED handle
        /\ Start(c, "set_calibration", 1, data, set_calibration)
    \/ /\ handle = "ready"
       /\ UNCHANGED handle
       /\ Start(c, "set_calibration", 0, << >>, set_calibration)

\* sensor.set_calibration
AccessSetCalibration(c) ==
    /\ handle = "ready"
    /\ UNCHANGED handle
    /\ Start(c, "set_calibration (property)", 0, << >>,
             set_calibration_property)

\* set_calibration(sensor, data); sensor.get_calibration, data of 22 bytes
CallCalibrationRoundTrip(c) ==
    \E data \in { d \in DataArgs : Len(d) = CAL_BLOCK_LENGTH } :
        /\ handle = "ready"
        /\ UNCHANGED handle
        /\ Start(c, "calibration_round_trip", 1, data, calibration_round_trip)

\* BNO055.load_calibration.fget(sensor, fpath), the stored profile holding
\* the items of `data`, one per line
CallLoadCalibration(c) ==
    \E data \in DataArgs :
        /\ handle = "ready"
        /\ UNCHANGED handle
        /\ Start(c, "load_calibration", 1, data, load_calibration)

\* sensor.load_calibration
AccessLoadCalibration(c) ==
    /\ handle = "ready"
    /\ UNCHANGED handle
    /\ Start(c, "load_calibration (property)", 0, << >>,
             load_calibration_property)

\* sensor.external_crystal
CallExternalCrystal(c) ==
    /\ handle = "ready"
    /\ UNCHANGED handle
    /\ Start(c, "external_crystal", 0, << >>, external_crystal)

\* sensor.use_external_crystal = value
CallUseExternalCrystal(c) ==
    \E value \in BOOLEAN :
        /\ handle = "ready"
        /\ UNCHANGED handle
        /\ Start(c, "use_external_crystal", IF value THEN 1 ELSE 0, << >>,
                 use_external_crystal(value))

\* sensor.use_external_crystal = value; sensor.external_crystal
CallCrystalRoundTrip(c) ==
    \E value \in BOOLEAN :
        /\ handle = "ready"
        /\ UNCHANGED handle
        /\ Start(c, "crystal_round_trip", IF value THEN 1 ELSE 0, << >>,
                 crystal_round_trip(value))

(***************************************************************************)
(* Steps of a call.                                                        *)
(***************************************************************************)
Running(c, k) == code[c] # << >> /\ Head(code[c]).k = k

Event(kind, a, b) == << kind, a, b >>
Log(c, e) == trace' = [trace EXCEPT ![c] = Append(@, e)]
Advance(c) ==
    /\ code' = [code EXCEPT ![c] = Tail(@)]
    /\ phase' = [phase EXCEPT ![c] = "start"]

\* An exception leaves the call: nothing of it is executed any more.  An
\* exception out of __init__ leaves no handle.
Raise(c, exc) ==
    /\ code' = [code EXCEPT ![c] = << >>]
    /\ phase' = [phase EXCEPT ![c] = "start"]
    /\ outcome' = [outcome EXCEPT ![c] = [status |-> exc, val |-> << >>]]
    /\ handle' = IF op[c].name = "__init__" THEN "failed" ELSE handle

\* _write_register: self.buffer[0] = register
WriteFill0(c) ==
    /\ Running(c, "write") /\ phase[c] = "start"
    /\ buffer' = << Head(code[c]).reg, buffer[2] >>
    /\ phase' = [phase EXCEPT ![c] = "filled0"]
    /\ UNCHANGED << dev, calib, handle, op, code, locals, outcome, trace,
                    failures, lastSet, lock >>

\* Mutant of WriteFill1: the value is not stored in the buffer.
WriteFill1_skipped(c) ==
    /\ Running(c, "write") /\ phase[c] = "filled0"
    /\ phase' = [phase EXCEPT ![c] = "filled"]
    /\ UNCHANGED << dev, calib, buffer, handle, op, code, locals, outcome,
                    trace, failures, lastSet, lock >>

\* _write_register: self.buffer[1] = value
WriteFill1(c) ==
    /\ Running(c, "write") /\ phase[c] = "filled0"
    /\ buffer' = << buffer[1], Head(code[c]).val >>
    /\ phase' = [phase EXCEPT ![c] = "filled"]
    /\ UNCHANGED << dev, calib, handle, op, code, locals, outcome, trace,
                    failures, lastSet, lock >>

\* _write_register: with self.i2c_device as i2c: i2c.write(self.buffer)
WriteTransmit(c) ==
    /\ Running(c, "write") /\ phase[c] = "filled"
    /\ dev' = DevWrite(dev, buffer[1], buffer[2])
    /\ Log(c, Event("write", buffer[1], buffer[2]))
    /\ Advance(c)
    /\ UNCHANGED << calib, buffer, handle, op, locals, outcome, failures,
                    lastSet, lock >>

\* _read_register: self.buffer[0] = register
ReadFill(c) ==
    /\ Running(c, "read") /\ phase[c] = "start"
    /\ buffer' = << Head(code[c]).reg, buffer[2] >>
    /\ phase' = [phase EXCEPT ![c] = "filled"]
    /\ UNCHANGED << dev, calib, handle, op, code, locals, outcome, trace,
                    failures, lastSet, lock >>

\* _read_register: i2c.write_then_readinto(self.buffer, self.buffer,
\*                                         out_end=1, in_start=1)
ReadTransact(c) ==
    /\ Running(c, "read") /\ phase[c] = "filled"
    /\ \E b \in DevRead(dev, buffer[1]) :
        /\ buffer' = << buffer[1], b >>
        /\ Log(c, Event("read", buffer[1], b))
    /\ phase' = [phase EXCEPT ![c] = "read"]
    /\ UNCHANGED << dev, calib, handle, op, code, locals, outcome, failures,
                    lastSet, lock >>

\* _read_register: return self.buffer[1], assigned to the statement's local
ReadReturn(c) ==
    /\ Running(c, "read") /\ phase[c] = "read"
    /\ locals' = [locals EXCEPT ![c][Head(code[c]).aux] = buffer[2]]
    /\ Advance(c)
    /\ UNCHANGED << dev, calib, buffer, handle, op, outcome, trace, failures,
                    lastSet, lock >>

\* The bus transaction of a register access fails with OSError outside a
\* try block: the error leaves the call.  The device saw nothing.
BusErrorRaised(c) ==
    /\ code[c] # << >> /\ phase[c] = "filled"
    /\ Head(code[c]).k \in {"write", "read"}
    /\ Head(code[c]).aux # "pass"
    /\ failures < MaxFailures
    /\ failures' = failures + 1
    /\ Log(c, Event("error", buffer[1],
                    IF Head(code[c]).k = "write" THEN buffer[2] ELSE 0))
    /\ Raise(c, "OSError")
    /\ UNCHANGED << dev, calib, buffer, op, locals, lastSet, lock >>

\* _reset: the write of the reset bit fails with OSError inside the try
\* block ("error due to the chip resetting"): the error is dropped and the
\* call goes on.  The chip may or may not have taken the reset.
BusErrorSwallowed(c) ==
    /\ Running(c, "write") /\ phase[c] = "filled"
    /\ Head(code[c]).aux = "pass"
    /\ failures < MaxFailures
    /\ failures' = failures + 1
    /\ Log(c, Event("error", buffer[1], buffer[2]))
    /\ dev' \in {dev, DevWrite(dev, buffer[1], buffer[2])}
    /\ Advance(c)
    /\ UNCHANGED << calib, buffer, handle, op, locals, outcome, lastSet, lock >>

\* time.sleep(...)
TimeSleep(c) ==
    /\ Running(c, "sleep")
    /\ Log(c, Event("sleep", Head(code[c]).val, 0))
    /\ Advance(c)
    /\ UNCHANGED << dev, calib, buffer, handle, op, locals, outcome, failures,
                    lastSet, lock >>

\* self.mode = ...: enters the mode setter with the value assigned.
ModeAssign(c) ==
    /\ Running(c, "mode=")
    /\ LET s == Head(code[c])
           new_mode == IF s.aux = "lit" THEN s.val ELSE locals[c][s.aux]
       IN  code' = [code EXCEPT ![c] = mode_setter(new_mode) \o Tail(@)]
    /\ UNCHANGED << dev, calib, buffer, handle, op, phase, locals, outcome,
                    trace, failures, lastSet, lock >>

\* if <test>: raise <exc>
RaiseIf(c) ==
    /\ Running(c, "raise_if")
    /\ IF Test(Head(code[c]).aux, locals[c], op[c])
       THEN /\ Raise(c, Head(code[c]).exc)
       ELSE /\ Advance(c)
            /\ UNCHANGED << handle, outcome >>
    /\ UNCHANGED << dev, calib, buffer, op, locals, trace, failures, lastSet, lock >>

\* return ...: the call ends.  __init__ returning yields the handle.
Return(c) ==
    /\ Running(c, "return")
    /\ outcome' = [outcome EXCEPT ![c] =
            [status |-> "returned", val |-> RetVal(Head(code[c]).aux, locals[c])]]
    /\ code' = [code EXCEPT ![c] = << >>]
    /\ handle' = IF op[c].name = "__init__" THEN "ready" ELSE handle
    /\ lastSet' = CASE op[c].name = "__init__" -> NDOF_MODE
                    [] op[c].name = "mode.setter" -> op[c].arg
                    [] OTHER -> lastSet
    /\ UNCHANGED << dev, calib, buffer, op, phase, locals, trace, failures, lock >>

\* sensor.acceleration, sensor.magnetic, ...: a read of a scaled binding
CallScaledGet(c) ==
    \E q \in ScaledBindings :
        /\ handle = "ready"
        /\ UNCHANGED handle
        /\ Start(c, q[1], 0, << >>, q[2])

\* _ScaledReadOnlyStruct.__get__: Struct.__get__ reads the fields of the
\* format from register_address on in one transaction, into a buffer of its
\* own, and unpacks them; the result is the tuple of scale * v.
StructGet(c) ==
    /\ Running(c, "struct_get")
    /\ LET s == Head(code[c])
           result == [i \in 1 .. FieldCount(s.aux) |->
                        Unpack_h(dev[s.reg + 2 * (i - 1)],
                                 dev[s.reg + 2 * (i - 1) + 1])]
       IN  /\ outcome' = [outcome EXCEPT ![c] =
                    [status |-> "returned",
                     val |-> [i \in 1 .. Len(result) |-> s.val * result[i]]]]
           /\ Log(c, Event("read_struct", s.reg, 2 * FieldCount(s.aux)))
    /\ code' = [code EXCEPT ![c] = << >>]
    /\ UNCHANGED << dev, calib, buffer, handle, op, phase, locals, failures,
                    lastSet, lock >>

Step(c) ==
    \/ Construct(c)
    \/ CallModeGet(c)
    \/ CallModeSet(c)
    \/ CallCalibrationStatus(c)
    \/ CallCalibrated(c)
    \/ CallGetCalibration(c)
    \/ CallSetCalibration(c)
    \/ AccessSetCalibration(c)
    \/ CallCalibrationRoundTrip(c)
    \/ CallLoadCalibration(c)
    \/ AccessLoadCalibration(c)
    \/ CallExternalCrystal(c)
    \/ CallUseExternalCrystal(c)
    \/ CallCrystalRoundTrip(c)
    \/ WriteFill0(c)
    \/ WriteFill1(c)
    \/ WriteTransmit(c)
    \/ ReadFill(c)
    \/ ReadTransact(c)
    \/ ReadReturn(c)
    \/ BusErrorRaised(c)
    \/ BusErrorSwallowed(c)
    \/ TimeSleep(c)
    \/ ModeAssign(c)
    \/ RaiseIf(c)
    \/ Return(c)

Next == \E c \in SingleCaller : Step(c)

Spec == Init /\ [][Next]_vars

(***************************************************************************)
(* The queries of a constructed handle on a device held at given register  *)
(* contents: any byte in the trigger register, any byte in the calibration *)
(* status register, or sample words in the data registers.  No bus error.  *)
(***************************************************************************)
InitReadings ==
    /\ dev \in { DeviceHolding(t, 255, << 0 >>) : t \in Byte }
            \cup { DeviceHolding(0, b, << 0 >>) : b \in Byte }
            \cup { DeviceHolding(0, 255, << w1, w2, w3 >>) :
                        w1 \in RawWords, w2 \in RawWords, w3 \in RawWords }
    /\ calib = Profile(0, CAL_BLOCK_LENGTH)
    /\ buffer = << _MODE_REGISTER, NDOF_MODE >>
    /\ handle = "ready"
    /\ op = [c \in Callers |-> NoOp]
    /\ code = [c \in Callers |-> << >>]
    /\ phase = [c \in Callers |-> "start"]
    /\ locals = [c \in Callers |-> NoLocals]
    /\ outcome = [c \in Callers |-> NoOutcome]
    /\ trace = [c \in Callers |-> << >>]
    /\ failures = 0
    /\ lastSet = NDOF_MODE
    /\ lock = -1

NextReadings ==
    \E c \in SingleCaller :
        \/ CallExternalCrystal(c)
        \/ CallCalibrationStatus(c)
        \/ CallCalibrated(c)
        \/ CallScaledGet(c)
        \/ WriteFill0(c)
        \/ WriteFill1(c)
        \/ WriteTransmit(c)
        \/ ReadFill(c)
        \/ ReadTransact(c)
        \/ ReadReturn(c)
        \/ TimeSleep(c)
        \/ ModeAssign(c)
        \/ Return(c)
        \/ StructGet(c)

SpecReadings == InitReadings /\ [][NextReadings]_vars

(***************************************************************************)
(* Two callers on one constructed handle, their steps interleaved; every   *)
(* bus transaction is atomic.  The callers either use no serialization of  *)
(* their own (lock = -1) or wrap each call in a lock they share.  Each     *)
(* caller makes one external-crystal read, of a device in NDOF with the    *)
(* crystal bit set.  No bus error.                                         *)
(***************************************************************************)
InitConcurrent ==
    /\ dev = DeviceHolding(CRYSTAL_BIT, 255, << 0 >>)
    /\ calib = Profile(0, CAL_BLOCK_LENGTH)
    /\ buffer = << _MODE_REGISTER, NDOF_MODE >>
    /\ handle = "ready"
    /\ op = [c \in Callers |-> NoOp]
    /\ code = [c \in Callers |-> << >>]
    /\ phase = [c \in Callers |-> "start"]
    /\ locals = [c \in Callers |-> NoLocals]
    /\ outcome = [c \in Callers |-> NoOutcome]
    /\ trace = [c \in Callers |-> << >>]
    /\ failures = 0
    /\ lastSet = NDOF_MODE
    /\ lock \in {-1, 0}

\* A serializing caller takes the free lock before a call ...
Acquire(c) ==
    /\ Idle(c)
    /\ lock = 0
    /\ lock' = c
    /\ UNCHANGED << dev, calib, buffer, handle, op, code, phase, locals,
                    outcome, trace, failures, lastSet >>

\* ... and gives it back after the call has ended.
Release(c) ==
    /\ Idle(c)
    /\ lock = c
    /\ lock' = 0
    /\ UNCHANGED << dev, calib, buffer, handle, op, code, phase, locals,
                    outcome, trace, failures, lastSet >>

\* Each caller makes one call: it may enter it when the callers do not
\* serialize, or when it holds the lock.
MayCall(c) ==
    /\ outcome[c].status = "none"
    /\ lock = -1 \/ lock = c

NextConcurrent ==
    \E c \in Callers :
        \/ Acquire(c)
        \/ Release(c)
        \/ MayCall(c) /\ CallExternalCrystal(c)
        \/ WriteFill0(c)
        \/ WriteFill1(c)
        \/ WriteTransmit(c)
        \/ ReadFill(c)
        \/ ReadTransact(c)
        \/ ReadReturn(c)
        \/ TimeSleep(c)
        \/ ModeAssign(c)
        \/ Return(c)

SpecConcurrent == InitConcurrent /\ [][NextConcurrent]_vars

(***************************************************************************)
(* Properties.                                                             *)
(***************************************************************************)
IsPrefix(s, t) == Len(s) <= Len(t) /\ \A i \in 1 .. Len(s) : s[i] = t[i]
WriteEvents(t) == { i \in 1 .. Len(t) : t[i][1] = "write" }
ErrorEvents(t) == { i \in 1 .. Len(t) : t[i][1] = "error" }
Ended(c) == Idle(c) /\ outcome[c].status # "none"
Returned(c) == Idle(c) /\ outcome[c].status = "returned"

\* The bus activity a mode assignment is to produce: CONFIG to register 0x3d,
\* 20 ms, and for a target other than CONFIG the target to 0x3d, 10 ms.
ModeSetSequence(M) ==
    IF M = 0
    THEN << << "write", 61, 0 >>, << "sleep", 20, 0 >> >>
    ELSE << << "write", 61, 0 >>, << "sleep", 20, 0 >>,
            << "write", 61, M >>, << "sleep", 10, 0 >> >>

\* C1: a mode assignment to M, whatever the current mode, issues exactly
\* write(0x3d, CONFIG), wait 20 ms and, only for M other than CONFIG,
\* write(0x3d, M), wait 10 ms: a completed assignment has issued exactly that,
\* one in progress a prefix of it, and one cut short by a bus error a prefix
\* of it followed by the failed transaction.
C1_ModeSetSequence ==
    \A c \in SingleCaller :
        op[c].name = "mode.setter" =>
            LET t == trace[c]
                want == ModeSetSequence(op[c].arg)
            IN  CASE outcome[c].status = "returned" -> t = want
                  [] outcome[c].status = "running" -> IsPrefix(t, want)
                  [] OTHER ->
                        /\ outcome[c].status = "OSError"
                        /\ t # << >>
                        /\ IsPrefix(SubSeq(t, 1, Len(t) - 1), want)
                        /\ t[Len(t)] = << "error", 61, want[Len(t)][3] >>

\* C1 witness: an assignment of NDOF made while the device was in NDOF has
\* completed.
C1_Witness ==
    /\ Returned(1)
    /\ op[1].name = "mode.setter"
    /\ op[1].arg = NDOF_MODE
    /\ op[1].prior = NDOF_MODE
    /\ Len(trace[1]) = 4

\* C2: with one caller and no bus error, the mode register holds the last
\* mode assigned whenever the caller is between calls; a mode read returns
\* it and writes nothing; and the register differs from the last mode
\* assigned only inside a mode assignment or while an external-crystal read
\* or toggle holds the device in CONFIG.
C2_ModeIsLastSet ==
    \A c \in SingleCaller :
        (failures = 0 /\ handle = "ready") =>
            /\ Idle(c) => dev[_MODE_REGISTER] = lastSet
            /\ (Returned(c) /\ op[c].name = "mode") =>
                    /\ outcome[c].val = << lastSet >>
                    /\ WriteEvents(trace[c]) = {}
                    /\ op[c].prior = lastSet
            /\ dev[_MODE_REGISTER] # lastSet =>
                    /\ ~ Idle(c)
                    /\ \/ op[c].name = "mode.setter"
                       \/ /\ op[c].name \in
                                {"external_crystal", "use_external_crystal",
                                 "crystal_round_trip"}
                          /\ dev[_MODE_REGISTER] = CONFIG_MODE

\* C2 witness: after an assignment of a mode other than the default, an
\* external-crystal toggle has completed and the mode is still that mode.
C2_Witness ==
    /\ failures = 0
    /\ Returned(1)
    /\ op[1].name = "use_external_crystal"
    /\ lastSet = COMPASS_MODE
    /\ dev[_MODE_REGISTER] = COMPASS_MODE

\* The bus activity of a construction, the reset write having gone through
\* (written) or having failed with the tolerated bus error (error).
InitSequence(reset) ==
    << << "read", 0, 160 >>,
       << "write", 61, 0 >>, << "sleep", 20, 0 >>,
       << reset, 63, 32 >>, << "sleep", 700, 0 >>,
       << "write", 62, 0 >>,
       << "write", 7, 0 >>,
       << "write", 63, 0 >>,
       << "sleep", 10, 0 >>,
       << "write", 61, 0 >>, << "sleep", 20, 0 >>,
       << "write", 61, 12 >>, << "sleep", 10, 0 >>,
       << "sleep", 10, 0 >> >>

\* C3: a construction that returns has performed, in this order, the read
\* of the identity register, the reset, the writes of normal power mode,
\* page 0 and trigger 0, a wait, the assignment of mode NDOF and a wait; the
\* device is then in NDOF.
C3_InitOrder ==
    \A c \in SingleCaller :
        (Returned(c) /\ op[c].name = "__init__") =>
            /\ trace[c] \in {InitSequence("write"), InitSequence("error")}
            /\ dev[_MODE_REGISTER] = NDOF_MODE
            /\ handle = "ready"

\* C3 witness: a construction has returned without any bus error.
C3_Witness ==
    /\ Returned(1)
    /\ op[1].name = "__init__"
    /\ failures = 0
    /\ op[1].prior = AMG_MODE

\* C4: once an identity byte other than 0xA0 has been read, the construction
\* does nothing but raise the identity error: its only bus transaction is
\* that read, no register has been written, and no handle results.
C4_BadChipId ==
    \A c \in SingleCaller :
        (op[c].name = "__init__" /\ locals[c].chip_id \notin {-1, 160}) =>
            /\ trace[c] = << << "read", 0, locals[c].chip_id >> >>
            /\ dev[_MODE_REGISTER] = op[c].prior
            /\ handle # "ready"
            /\ IF Idle(c)
               THEN outcome[c].status = "RuntimeError" /\ handle = "failed"
               ELSE Len(code[c]) > 0 /\ Head(code[c]).k = "raise_if"

\* C4 witness: a construction against identity byte 0x00 has failed.
C4_Witness ==
    /\ Idle(1)
    /\ op[1].name = "__init__"
    /\ locals[1].chip_id = 0
    /\ outcome[1].status = "RuntimeError"

\* C5: a bus error ends the call it occurs in with OSError, as the last bus
\* activity of that call, unless it is the write of the reset bit (0x20) to
\* the trigger register in a construction: that one is dropped, the reset
\* write is not issued again, and the construction, if no other bus error
\* stops it, returns with the device in NDOF.
C5_BusErrors ==
    \A c \in SingleCaller :
        LET t == trace[c]
            swallowed == { i \in ErrorEvents(t) : t[i] = << "error", 63, 32 >> }
            raised == ErrorEvents(t) \ swallowed
        IN  /\ \A i \in raised : i = Len(t) /\ Idle(c)
            /\ (raised # {}) <=> (outcome[c].status = "OSError")
            /\ swallowed # {} =>
                    /\ op[c].name = "__init__"
                    /\ Cardinality({ i \in 1 .. Len(t) :
                            t[i][2] = 63 /\ t[i][3] = 32 }) = 1
                    /\ (Idle(c) /\ raised = {}) =>
                            /\ outcome[c].status = "returned"
                            /\ dev[_MODE_REGISTER] = NDOF_MODE

\* C5 witness: a construction whose reset write failed has returned.
C5_Witness ==
    /\ Returned(1)
    /\ op[1].name = "__init__"
    /\ ErrorEvents(trace[1]) # {}

\* The reset write in a construction's bus activity, issued or failed.
ResetEvents(t) ==
    { i \in 1 .. Len(t) :
        t[i] \in { << "write", 63, 32 >>, << "error", 63, 32 >> } }
ModeWrites(t) == { i \in WriteEvents(t) : t[i][2] = 61 }

\* C6 as stated: in a construction no write to the mode register (0x3d)
\* precedes the write of the reset bit to the trigger register.
C6_NoModeWriteBeforeReset ==
    \A c \in SingleCaller :
        op[c].name = "__init__" =>
            \A i \in ResetEvents(trace[c]) :
                \A j \in ModeWrites(trace[c]) : ~ (j < i)

\* C6 amended: in a construction exactly one write to the mode register
\* precedes the write of the reset bit, and it writes CONFIG; the reset write
\* is followed at once by the 700 ms wait; and every write of a mode other
\* than CONFIG comes after the reset write.
C6_OnlyConfigBeforeReset ==
    \A c \in SingleCaller :
        op[c].name = "__init__" =>
            LET t == trace[c]
            IN  /\ \A i \in ResetEvents(t) :
                    /\ { j \in ModeWrites(t) : j < i } = {2}
                    /\ t[2] = << "write", 61, 0 >>
                    /\ Len(t) > i => t[i + 1] = << "sleep", 700, 0 >>
                /\ \A j \in ModeWrites(t) :
                    t[j][3] # 0 => \E i \in ResetEvents(t) : i < j
                /\ Returned(c) => ResetEvents(t) # {}

\* C6 witness: a construction has written NDOF to the mode register, after
\* its reset write.
C6_Witness ==
    /\ op[1].name = "__init__"
    /\ ResetEvents(trace[1]) # {}
    /\ \E j \in ModeWrites(trace[1]) : trace[1][j][3] = 12

\* C7 as stated: get_calibration on a fully calibrated device, with no bus
\* error, forces CONFIG, returns the 22 bytes of the block at 0x55 and leaves
\* the device in the mode it was in before the call.
C7_GetCalibrationReturnsBlock ==
    \A c \in SingleCaller :
        ( /\ op[c].name = "get_calibration"
          /\ Ended(c)
          /\ failures = 0
          /\ locals[c].calibration_data = 255 ) =>
            /\ outcome[c].status = "returned"
            /\ outcome[c].val = calib
            /\ \E i \in ModeWrites(trace[c]) : trace[c][i][3] = 0
            /\ dev[_MODE_REGISTER] = op[c].prior

\* C8: once get_calibration has read a status byte other than 0xFF it does
\* nothing but raise the not-calibrated error: its only bus transaction is
\* that read, nothing is written, and the operating mode is as before.
C8_NotCalibrated ==
    \A c \in SingleCaller :
        ( /\ op[c].name = "get_calibration"
          /\ locals[c].calibration_data \notin {-1, 255} ) =>
            /\ trace[c] = << << "read", 53, locals[c].calibration_data >> >>
            /\ dev[_MODE_REGISTER] = op[c].prior
            /\ IF Idle(c)
               THEN outcome[c].status = "ValueError"
               ELSE Head(code[c]).k = "raise_if"

\* C8 witness: get_calibration has failed on status byte 0xFE (3, 3, 3, 2).
C8_Witness ==
    /\ Idle(1)
    /\ op[1].name = "get_calibration"
    /\ locals[1].calibration_data = 254
    /\ outcome[1].status = "ValueError"

\* C9 as stated: set_calibration with no data or data not of 22 bytes fails
\* with the length error before any register write; with 22 bytes, and no
\* bus error, it writes them to the block at 0x55 and restores the mode.
C9_SetCalibration ==
    \A c \in SingleCaller :
        (op[c].name = "set_calibration" /\ Ended(c) /\ failures = 0) =>
            IF op[c].arg = 0 \/ Len(op[c].data) # 22
            THEN /\ outcome[c].status = "ValueError"
                 /\ WriteEvents(trace[c]) = {}
            ELSE /\ outcome[c].status = "returned"
                 /\ calib = op[c].data
                 /\ dev[_MODE_REGISTER] = op[c].prior

\* C10 as stated: with no bus error and the device fully calibrated,
\* set_calibration(D) followed by get_calibration returns D.
C10_RoundTrip ==
    \A c \in SingleCaller :
        ( /\ op[c].name = "calibration_round_trip"
          /\ Ended(c)
          /\ failures = 0
          /\ locals[c].calibration_data \in {-1, 255} ) =>
            /\ outcome[c].status = "returned"
            /\ outcome[c].val = op[c].data

\* C11: with no bus error, for either setting v and every mode P the device
\* is in: an external-crystal assignment of v leaves the crystal bit as v and
\* the mode P; an external-crystal read leaves the mode P; and the read that
\* follows the assignment of v returns v.
C11_CrystalRoundTrip ==
    \A c \in SingleCaller :
        failures = 0 =>
            /\ (Returned(c) /\ op[c].name = "use_external_crystal") =>
                    /\ dev[_MODE_REGISTER] = op[c].prior
                    /\ dev[_TRIGGER_REGISTER] = 128 * op[c].arg
            /\ (Returned(c) /\ op[c].name = "external_crystal") =>
                    dev[_MODE_REGISTER] = op[c].prior
            /\ op[c].name = "crystal_round_trip" =>
                    /\ (code[c] = external_crystal /\ phase[c] = "start") =>
                            /\ dev[_MODE_REGISTER] = op[c].prior
                            /\ dev[_TRIGGER_REGISTER] = 128 * op[c].arg
                    /\ Returned(c) =>
                            /\ outcome[c].val = << op[c].arg >>
                            /\ dev[_MODE_REGISTER] = op[c].prior

\* C11 witness: in IMUPLUS mode, the crystal was set to true and then read
\* as true.
C11_Witness ==
    /\ failures = 0
    /\ Returned(1)
    /\ op[1].name = "crystal_round_trip"
    /\ op[1].arg = 1
    /\ op[1].prior = IMUPLUS_MODE
    /\ outcome[1].val = << 1 >>


\* C15: load_calibration on a stored profile of other than 22 lines (21 or
\* 23 among them) fails with the malformed-file error (ValueError) and
\* writes no register; on a profile of exactly 22 lines it returns those 22
\* byte values in order.
C15_LoadCalibration ==
    \A c \in SingleCaller :
        (Ended(c) /\ op[c].name = "load_calibration") =>
            /\ WriteEvents(trace[c]) = {}
            /\ Len(op[c].data) # 22 => outcome[c].status = "ValueError"
            /\ Len(op[c].data) = 22 =>
                    /\ outcome[c].status = "returned"
                    /\ outcome[c].val = op[c].data

\* C17: an external-crystal read or toggle, or a calibration get or set,
\* that a bus error ends after CONFIG was forced (on the page select, the
\* trigger register access or the calibration block access) leaves the mode
\* register holding the mode it held when the operation started.
C17_RestoredOnError ==
    \A c \in SingleCaller :
        ( /\ Ended(c)
          /\ op[c].name \in {"external_crystal", "use_external_crystal",
                              "get_calibration", "set_calibration"}
          /\ outcome[c].status = "OSError"
          /\ trace[c] # << >>
          /\ trace[c][Len(trace[c])][1] = "error"
          /\ trace[c][Len(trace[c])][2] \in {7, 63, 85} )
        => dev[_MODE_REGISTER] = op[c].prior

\* C20: with one caller, bus errors included, every write of a non-CONFIG
\* value to the mode register that reaches the device finds the register
\* holding CONFIG, and the register never changes from one non-CONFIG mode
\* to another in one step.
C20_NonConfigOnlyFromConfig ==
    [][ /\ \A c \in SingleCaller :
            ( /\ Len(trace'[c]) = Len(trace[c]) + 1
              /\ trace'[c][Len(trace'[c])][1] = "write"
              /\ trace'[c][Len(trace'[c])][2] = 61
              /\ trace'[c][Len(trace'[c])][3] # 0 )
            => dev[_MODE_REGISTER] = 0
        /\ (dev'[_MODE_REGISTER] # dev[_MODE_REGISTER]
                /\ dev'[_MODE_REGISTER] # 0)
            => dev[_MODE_REGISTER] = 0 ]_vars

\* C20 witness: after a bus error, an external-crystal toggle started in
\* NDOF has written NDOF back to the mode register.
C20_Witness ==
    /\ failures = 1
    /\ op[1].name = "use_external_crystal"
    /\ op[1].prior = NDOF_MODE
    /\ \E i \in 1 .. Len(trace[1]) : trace[1][i] = << "write", 61, 12 >>
    /\ dev[_MODE_REGISTER] = NDOF_MODE

\* C12: for every byte t held by the trigger register, a read of the
\* external-crystal setting returns true exactly when bit 0x80 of t is set,
\* whatever the other bits of t.
C12_CrystalBit ==
    \A c \in SingleCaller :
        (Returned(c) /\ op[c].name = "external_crystal") =>
            outcome[c].val =
                << IF (dev[_TRIGGER_REGISTER] \div 128) % 2 = 1 THEN 1 ELSE 0 >>

\* C13: for every status byte b in 0..255 held by register 0x35,
\* calibration_status returns four values in 0..3 that are bits 7:6, 5:4,
\* 3:2 and 1:0 of b, calibrated returns true exactly when b is 0xFF, and
\* either query performs the one read of 0x35 and no write.
C13_StatusDecode ==
    \A c \in SingleCaller :
        (Returned(c) /\ op[c].name \in {"calibration_status", "calibrated"}) =>
            LET b == dev[_CALIBRATION_REGISTER]
                v == outcome[c].val
            IN  /\ trace[c] = << << "read", 53, b >> >>
                /\ WriteEvents(trace[c]) = {}
                /\ op[c].name = "calibration_status" =>
                        /\ Len(v) = 4
                        /\ \A i \in 1 .. 4 : v[i] \in 0 .. 3
                        /\ b = 64 * v[1] + 16 * v[2] + 4 * v[3] + v[4]
                /\ op[c].name = "calibrated" =>
                        v = << IF b = 255 THEN 1 ELSE 0 >>

\* C13 witness: calibration_status has returned (0, 1, 2, 3) for the status
\* byte 0x1B.
C13_Witness ==
    /\ Returned(1)
    /\ op[1].name = "calibration_status"
    /\ dev[_CALIBRATION_REGISTER] = 27
    /\ outcome[1].val = << 0, 1, 2, 3 >>

\* C14 as stated: for status byte 0xE4, calibration_status returns
\* (sys, gyro, accel, mag) = (3, 2, 0, 0).
C14_StatusE4_AsStated ==
    \A c \in SingleCaller :
        ( /\ Returned(c)
          /\ op[c].name = "calibration_status"
          /\ locals[c].calibration_data = 228 )
        => outcome[c].val = << 3, 2, 0, 0 >>

\* C14, amended: for status byte 0xE4 (0b11100100), calibration_status
\* returns (sys, gyro, accel, mag) = (3, 2, 1, 0).
C14_StatusE4 ==
    \A c \in SingleCaller :
        ( /\ Returned(c)
          /\ op[c].name = "calibration_status"
          /\ locals[c].calibration_data = 228 )
        => outcome[c].val = << 3, 2, 1, 0 >>

\* C14 witness: calibration_status has returned for the status byte 0xE4.
C14_Witness ==
    /\ Returned(1)
    /\ op[1].name = "calibration_status"
    /\ locals[1].calibration_data = 228
    /\ Len(outcome[1].val) = 4

\* The scaled quantities as the documentation gives them: name, first
\* register, number of fields and the denominator of the scale.
C16_Quantities ==
    { << "acceleration", 8, 3, 100 >>,
      << "magnetic", 14, 3, 16 >>,
      << "gyroscope", 20, 3, 16 >>,
      << "euler", 26, 3, 16 >>,
      << "quaternion", 32, 4, 16384 >>,
      << "linear_acceleration", 40, 3, 100 >>,
      << "gravity", 46, 3, 100 >> }

\* The signed value of a 16-bit word, and the i-th raw field from a register
\* on, low byte at the lower address.
Signed16(u) == ((u + 32768) % 65536) - 32768
RawField(address, i) ==
    Signed16(dev[address + 2 * (i - 1)] + 256 * dev[address + 2 * (i - 1) + 1])

\* C16: a read of a scaled quantity returns, field by field, the raw
\* little-endian signed 16-bit value times the scale of the quantity (1/100,
\* 1/16, 1/16, 1/16, 1/16384, 1/100, 1/100); the output for the doubled raw
\* value, where that is a 16-bit value, is twice the output; and the read
\* writes no register.
C16_ScaledOutputs ==
    \A c \in SingleCaller : \A q \in C16_Quantities :
        (Returned(c) /\ op[c].name = q[1]) =>
            LET v == outcome[c].val
                binding == CHOOSE s \in ScaledBindings : s[1] = q[1]
            IN  /\ Len(v) = q[3]
                /\ WriteEvents(trace[c]) = {}
                /\ \A i \in 1 .. q[3] :
                        LET x == RawField(q[2], i)
                        IN  /\ ScaleUnit % q[4] = 0
                            /\ v[i] = x * (ScaleUnit \div q[4])
                            /\ 2 * x \in -32768 .. 32767 =>
                                    binding[2][1].val
                                        * Unpack_h((2 * x) % 256,
                                                   ((2 * x) \div 256) % 256)
                                    = 2 * v[i]

\* C16 witness: a quaternion read has returned -1 and 100/16384 for the raw
\* fields -16384 and 100.
C16_Witness ==
    /\ Returned(1)
    /\ op[1].name = "quaternion"
    /\ RawField(32, 1) = -16384
    /\ RawField(32, 2) = 100
    /\ outcome[1].val[1] = - ScaleUnit
    /\ outcome[1].val[2] = 2500

\* C18: when the two callers run each external-crystal read as a critical
\* section, the mode register holds, whenever the lock is free or held by a
\* caller whose read has returned, the mode it held before that read; with
\* no such serialization (the witness) both reads can return with the
\* device left in CONFIG although it was in NDOF before both.
C18_SerializedKeepsMode ==
    \A c \in Callers :
        ( /\ lock \in {0, c}
          /\ Returned(c)
          /\ op[c].name = "external_crystal" )
        => /\ dev[_MODE_REGISTER] = op[c].prior
           /\ op[c].prior = NDOF_MODE
           /\ locals[c].last_mode = NDOF_MODE

\* C18 witness: without serialization, both reads were entered with the
\* device in NDOF, both have returned, and the device is in CONFIG.
C18_Witness ==
    /\ lock = -1
    /\ \A c \in Callers :
            /\ Returned(c)
            /\ op[c].name = "external_crystal"
            /\ op[c].prior = NDOF_MODE
    /\ dev[_MODE_REGISTER] = CONFIG_MODE

\* The (register, value) pairs the write statements of a body ask the bus
\* for.
RequestedWrites(body) ==
    { << body[i].reg, body[i].val >> :
        i \in { j \in 1 .. Len(body) : body[j].k = "write" } }

\* C19: with the calls serialized, the pair a register write transmits is
\* the pair of the write being executed, the register a read addresses is
\* the register of the read being executed, and the byte the read returns
\* is the byte the device holds in that register; without serialization
\* (the witness) a caller transmits a pair no caller asked for and a read
\* returns the byte of another register.
C19_SerializedTransfers ==
    \A c \in Callers :
        lock # -1 =>
            /\ (Running(c, "write") /\ phase[c] = "filled") =>
                    buffer = << Head(code[c]).reg, Head(code[c]).val >>
            /\ (Running(c, "read") /\ phase[c] \in {"filled", "read"}) =>
                    buffer[1] = Head(code[c]).reg
            /\ (Running(c, "read") /\ phase[c] = "read") =>
                    /\ buffer[2] = dev[Head(code[c]).reg]
                    /\ trace[c][Len(trace[c])]
                            = << "read", Head(code[c]).reg, buffer[2] >>
            /\ \A i \in WriteEvents(trace[c]) :
                    << trace[c][i][2], trace[c][i][3] >> \in
                        RequestedWrites(mode_setter(CONFIG_MODE))
                        \cup RequestedWrites(mode_setter(NDOF_MODE))
                        \cup RequestedWrites(external_crystal)
            /\ Returned(c) => outcome[c].val = << 1 >>

\* C19 witness: without serialization, caller 1 has transmitted the pair
\* (page register, NDOF), which neither read asks for, and caller 2 has
\* been handed the mode byte as the content of the trigger register.
C19_Witness ==
    /\ lock = -1
    /\ \E i \in 1 .. Len(trace[1]) : trace[1][i] = << "write", 7, 12 >>
    /\ locals[2].value # -1
    /\ locals[2].value # 128
=============================================================================
